---- MODULE Spec2Model ----
(***************************************************************************)
(* A model of the procedural song generator (song_generator.py) and of the *)
(* stand-alone script (app2.py): the MIDI variable-length encoder, the     *)
(* track serializer, the theory helpers, the three generators and the file *)
(* assembler.                                                              *)
(*                                                                         *)
(* Bytes are integers 0..255.  A character string the code takes apart     *)
(* (a progression, a chord token) is a sequence of one-character strings.  *)
(* A float in 0..1 (energy, swing) is kept in hundredths.                  *)
(***************************************************************************)
EXTENDS Integers, Sequences, FiniteSets, TLC

VARIABLES
    value,       \* write_varlen: the argument
    encoded,     \* write_varlen: the returned byte list (<<>> before the call)
    encoded2,    \* app2.write_varlen: the returned byte list
    events,      \* build_track: the argument, a list of <<tick, msg>>
    data,        \* build_track: the returned bytes (<<>> before the call)
    data2,       \* app2.build_track: the returned bytes
    roman,       \* roman_to_degree: the argument
    degree,      \* roman_to_degree: the returned index (-1 before the call)
    params,      \* generate_song_bytes: the SongParams
    ambient,     \* the state of the module-level generator of `random`
    call,        \* which of two successive calls of generate_song_bytes runs
    order,       \* the generators that have returned in the current call, in order
    chord_ev,    \* chord_ev of the current call
    chord_degs,  \* chord_degs of the current call
    melody_ev,   \* melody_ev of the current call
    drum_ev,     \* drum_ev of the current call
    result       \* per call: what generate_song_bytes returned or raised

varlenVars == <<value, encoded, encoded2>>
trackVars == <<events, data, data2>>
romanVars == <<roman, degree>>
songVars == <<params, ambient, call, order, chord_ev, chord_degs, melody_ev, drum_ev, result>>
vars == <<value, encoded, encoded2, events, data, data2, roman, degree, params,
          ambient, call, order, chord_ev, chord_degs, melody_ev, drum_ev, result>>

(***************************************************************************)
(* Bounds of the model.                                                    *)
(***************************************************************************)
MaxValue == 16500
MaxEvents == 3
MaxTick == 20000
MaxTokenLen == 3
MaxBars == 1
MaxSeed == 1

(***************************************************************************)
(* Small helpers.                                                          *)
(***************************************************************************)
Max(a, b) == IF a >= b THEN a ELSE b

\* Python's int(x) of the rational n / d (d > 0): truncation towards zero.
Trunc(n, d) == IF n >= 0 THEN n \div d ELSE -((-n) \div d)

\* The concatenation of ss[lo], ..., ss[hi], by halves.
RECURSIVE FlattenRange(_, _, _)
FlattenRange(ss, lo, hi) ==
    IF lo > hi
    THEN <<>>
    ELSE IF lo = hi
         THEN ss[lo]
         ELSE LET mid == (lo + hi) \div 2
              IN  FlattenRange(ss, lo, mid) \o FlattenRange(ss, mid + 1, hi)

Flatten(ss) == FlattenRange(ss, 1, Len(ss))

PPQN == 480

(***************************************************************************)
(* write_varlen                                                            *)
(***************************************************************************)
RECURSIVE varlen_loop(_, _)
varlen_loop(v, out) ==
    IF v > 0
    THEN varlen_loop(v \div 128, <<(v % 128) + 128>> \o out)
    ELSE out

\* A mutant: each further group is appended, not inserted at the front.
RECURSIVE varlen_loop_append(_, _)
varlen_loop_append(v, out) ==
    IF v > 0
    THEN varlen_loop_append(v \div 128, Append(out, (v % 128) + 128))
    ELSE out

write_varlen_append(v) ==
    LET c == Max(0, v)
    IN  varlen_loop_append(c \div 128, <<c % 128>>)

\* A mutant: the continuation bit is never set.
RECURSIVE varlen_loop_nocont(_, _)
varlen_loop_nocont(v, out) ==
    IF v > 0
    THEN varlen_loop_nocont(v \div 128, <<v % 128>> \o out)
    ELSE out

write_varlen_nocont(v) ==
    LET c == Max(0, v)
    IN  varlen_loop_nocont(c \div 128, <<c % 128>>)

\* song_generator.write_varlen: the value is clamped at 0 first.
write_varlen(v) ==
    LET c == Max(0, v)
    IN  varlen_loop(c \div 128, <<c % 128>>)

\* app2.write_varlen: no clamp; the model applies it to values >= 0 only
\* (on a negative value the loop `while value` does not end).
write_varlen2(v) == varlen_loop(v \div 128, <<v % 128>>)

(***************************************************************************)
(* build_track                                                             *)
(***************************************************************************)
Tick(e) == e[1]
Msg(e) == e[2]

MinTick(evs) ==
    CHOOSE t \in {Tick(evs[i]) : i \in 1..Len(evs)} :
        \A i \in 1..Len(evs) : t <= Tick(evs[i])

MaxTickOf(evs) ==
    CHOOSE t \in {Tick(evs[i]) : i \in 1..Len(evs)} :
        \A i \in 1..Len(evs) : t >= Tick(evs[i])

RECURSIVE Reverse(_)
Reverse(s) == IF s = <<>> THEN <<>> ELSE Append(Reverse(Tail(s)), Head(s))

\* A mutant of sort_range: events of equal tick come out in reverse order.
RECURSIVE sort_range_unstable(_, _, _)
sort_range_unstable(evs, lo, hi) ==
    IF Len(evs) <= 1
    THEN evs
    ELSE IF lo >= hi
         THEN Reverse(evs)
         ELSE LET mid == (lo + hi) \div 2
              IN  sort_range_unstable(SelectSeq(evs, LAMBDA e : Tick(e) <= mid), lo, mid)
                    \o sort_range_unstable(SelectSeq(evs, LAMBDA e : Tick(e) > mid),
                                           mid + 1, hi)

sorted_unstable(evs) ==
    IF evs = <<>> THEN <<>> ELSE sort_range_unstable(evs, MinTick(evs), MaxTickOf(evs))

\* The events of evs, whose ticks lie in lo..hi, in ascending order of tick,
\* those of one tick in their order in evs: the lower half of the ticks, then
\* the upper half.
RECURSIVE sort_range(_, _, _)
sort_range(evs, lo, hi) ==
    IF Len(evs) <= 1 \/ lo >= hi
    THEN evs
    ELSE LET mid == (lo + hi) \div 2
         IN  sort_range(SelectSeq(evs, LAMBDA e : Tick(e) <= mid), lo, mid)
               \o sort_range(SelectSeq(evs, LAMBDA e : Tick(e) > mid), mid + 1, hi)

\* sorted(events, key=lambda x: x[0]): Python's sort is stable.
sorted(evs) ==
    IF evs = <<>> THEN <<>> ELSE sort_range(evs, MinTick(evs), MaxTickOf(evs))

\* The loop of build_track over the sorted events s: the i-th pass writes
\* delta = tick - last, last being 0 at first and the tick of the event before
\* afterwards, and then the message.
track_loop(s) ==
    Flatten([i \in 1..Len(s) |->
               LET tick == Tick(s[i])
                   last == IF i = 1 THEN 0 ELSE Tick(s[i - 1])
                   delta == tick - last
               IN  write_varlen(delta) \o Msg(s[i])])

\* The same loop in app2.py, with app2's write_varlen.
track_loop2(s) ==
    Flatten([i \in 1..Len(s) |->
               LET tick == Tick(s[i])
                   last == IF i = 1 THEN 0 ELSE Tick(s[i - 1])
                   delta == tick - last
               IN  write_varlen2(delta) \o Msg(s[i])])

build_track2(evs) == track_loop2(sorted(evs)) \o write_varlen2(0) \o <<255, 47, 0>>

\* A mutant: the end-of-track marker is left out.
build_track_no_end(evs) == track_loop(sorted(evs))

build_track(evs) == track_loop(sorted(evs)) \o write_varlen(0) \o <<255, 47, 0>>

\* bytearray.extend raises ValueError on an item outside range(256).
bytes_ok(evs) ==
    \A i \in 1..Len(evs) : \A j \in 1..Len(Msg(evs[i])) : Msg(evs[i])[j] \in 0..255

(***************************************************************************)
(* Theory engine                                                           *)
(***************************************************************************)
NOTE_TO_SEMI ==
    [n \in {"C", "C#", "Db", "D", "D#", "Eb", "E", "F", "F#", "Gb", "G", "G#",
            "Ab", "A", "A#", "Bb", "B"} |->
       CASE n = "C" -> 0
         [] n \in {"C#", "Db"} -> 1
         [] n = "D" -> 2
         [] n \in {"D#", "Eb"} -> 3
         [] n = "E" -> 4
         [] n = "F" -> 5
         [] n \in {"F#", "Gb"} -> 6
         [] n = "G" -> 7
         [] n \in {"G#", "Ab"} -> 8
         [] n = "A" -> 9
         [] n \in {"A#", "Bb"} -> 10
         [] n = "B" -> 11]

midi_note(note_name, octave) == 12 * (octave + 1) + NOTE_TO_SEMI[note_name]

\* str.lower on the mode names the model uses.
lower(mode) ==
    CASE mode \in {"major", "Major", "MAJOR"} -> "major"
      [] mode \in {"minor", "Minor", "MINOR"} -> "minor"
      [] OTHER -> mode

build_scale(root_note, mode, base_octave) ==
    LET root == midi_note(root_note, base_octave)
        intervals == IF lower(mode) = "major"
                     THEN <<0, 2, 4, 5, 7, 9, 11>>
                     ELSE <<0, 2, 3, 5, 7, 8, 10>>
    IN  [i \in 1..7 |-> root + intervals[i]]

\* The two characters of the literal the code deletes from a token (the
\* bytes of a degree sign read as Latin-1), each as a one-character string.
ChA == "U+00C2"
ChDeg == "U+00B0"

\* str.strip, on the one whitespace character of the model's alphabet.
RECURSIVE lstrip(_)
lstrip(s) == IF s # <<>> /\ Head(s) = " " THEN lstrip(Tail(s)) ELSE s

RECURSIVE rstrip(_)
rstrip(s) ==
    IF s # <<>> /\ s[Len(s)] = " " THEN rstrip(SubSeq(s, 1, Len(s) - 1)) ELSE s

strip(s) == rstrip(lstrip(s))

\* str.replace(<two characters>, ""): every occurrence, left to right.
RECURSIVE remove_marker(_)
remove_marker(s) ==
    IF s = <<>>
    THEN <<>>
    ELSE IF Len(s) >= 2 /\ s[1] = ChA /\ s[2] = ChDeg
         THEN remove_marker(SubSeq(s, 3, Len(s)))
         ELSE <<Head(s)>> \o remove_marker(Tail(s))

mapping ==
    (<<"i">> :> 0) @@ (<<"i", "i">> :> 1) @@ (<<"i", "i", "i">> :> 2)
      @@ (<<"i", "v">> :> 3) @@ (<<"v">> :> 4) @@ (<<"v", "i">> :> 5)
      @@ (<<"v", "i", "i">> :> 6)
      @@ (<<"I">> :> 0) @@ (<<"I", "I">> :> 1) @@ (<<"I", "I", "I">> :> 2)
      @@ (<<"I", "V">> :> 3) @@ (<<"V">> :> 4) @@ (<<"V", "I">> :> 5)
      @@ (<<"V", "I", "I">> :> 6)

\* A mutant: the upper-case spellings are missing from the table.
roman_to_degree_lower(r) ==
    LET key == remove_marker(strip(r))
    IN  IF key \in DOMAIN mapping /\ (\A i \in 1..Len(key) : key[i] \in {"i", "v"})
        THEN mapping[key]
        ELSE 0

\* mapping.get(roman.strip().replace(..., ""), 0)
roman_to_degree(r) ==
    LET key == remove_marker(strip(r))
    IN  IF key \in DOMAIN mapping THEN mapping[key] ELSE 0

\* progression.replace("|", "-")
replace_bar(s) == [i \in 1..Len(s) |-> IF s[i] = "|" THEN "-" ELSE s[i]]

\* str.split("-"): the pieces between the separators, empty ones included.
RECURSIVE split_loop(_, _, _)
split_loop(s, cur, out) ==
    IF s = <<>>
    THEN Append(out, cur)
    ELSE IF Head(s) = "-"
         THEN split_loop(Tail(s), <<>>, Append(out, cur))
         ELSE split_loop(Tail(s), Append(cur, Head(s)), out)

split(s) == split_loop(s, <<>>, <<>>)

\* [t.strip() for t in progression.replace("|", "-").split("-") if t.strip()]
tokens_of(progression) ==
    LET parts == split(replace_bar(progression))
        kept == SelectSeq(parts, LAMBDA t : strip(t) # <<>>)
    IN  [i \in 1..Len(kept) |-> strip(kept[i])]

(***************************************************************************)
(* random.Random                                                           *)
(*                                                                         *)
(* A generator object is a deterministic stream fixed by its seed.  The    *)
(* model keeps the stream's state as a number: Seeded is the constructor,  *)
(* NextRng the step one draw takes, and each draw reads its value off the  *)
(* state after the step.  (The stream is a linear congruential one, not    *)
(* the Mersenne Twister: the claims depend on the stream being a function  *)
(* of the seed, and on the ranges of the draws, not on its numbers.)       *)
(***************************************************************************)
Seeded(seed) == (((seed % 32768) * 9) + 4321) % 32768

NextRng(s) == (s * 20077 + 12345) % 32768

\* randint(a, b) read from the state after the step: a value in a..b.
RandInt(s, a, b) == a + ((s \div 16) % (b - a + 1))

\* random() < 0.7 read from the state after the step.
RandomBelow07(s) == ((s \div 16) % 10) < 7

\* choice(seq) read from the state after the step.
Choice(s, seq) == seq[1 + ((s \div 16) % Len(seq))]

(***************************************************************************)
(* make_chords                                                             *)
(***************************************************************************)
\* A mutant: the generator draws from the module-level generator.
chord_rng_ambient(p) == ambient

\* rng = random.Random(params.seed)
chord_rng(p) == Seeded(p.seed)

\* One pass of `for n in notes`, from the state st = [rng, events] before it.
chord_note(p, n, start, end, st) ==
    LET r1 == NextRng(st.rng)
        stagger == RandInt(r1, 0, 40)
        r2 == NextRng(r1)
        vel == Trunc(6500 + 15 * p.energy + 100 * RandInt(r2, -5, 5), 100)
    IN  [rng |-> r2,
         events |-> st.events \o << <<start + stagger, <<144, n, vel>> >>,
                                    <<end - 100, <<128, n, 0>> >> >>]

\* A mutant: the triad is built on the root, the third above it and the
\* fourth above it.
triad_of_fourth(root_deg) == <<root_deg % 7, (root_deg + 2) % 7, (root_deg + 3) % 7>>

\* triad_degs = [root_deg % 7, (root_deg + 2) % 7, (root_deg + 4) % 7]
triad_of(root_deg) == <<root_deg % 7, (root_deg + 2) % 7, (root_deg + 4) % 7>>

\* A mutant: the token of a bar is not taken cyclically.
token_of_bar_clamped(tokens, bar) ==
    tokens[IF bar + 1 <= Len(tokens) THEN bar + 1 ELSE Len(tokens)]

\* tokens[bar % len(tokens)]
token_of_bar(tokens, bar) == tokens[(bar % Len(tokens)) + 1]

\* One pass of `for bar in range(params.bars)`, from the state before it.
chord_bar(p, bar_ticks, scale, tokens, bar, st) ==
    IF Len(tokens) = 0
    THEN [error |-> "ZeroDivisionError", rng |-> st.rng, events |-> <<>>, degs |-> <<>>]
    ELSE LET root_deg == roman_to_degree(token_of_bar(tokens, bar))
             triad_degs == triad_of(root_deg)
             notes == <<scale[triad_degs[1] + 1],
                        scale[triad_degs[3] + 1],
                        scale[triad_degs[2] + 1] + 12>>
             start == bar * bar_ticks
             end == (bar + 1) * bar_ticks
             s1 == chord_note(p, notes[1], start, end, [rng |-> st.rng, events |-> st.events])
             s2 == chord_note(p, notes[2], start, end, s1)
             s3 == chord_note(p, notes[3], start, end, s2)
         IN  [error |-> "none", rng |-> s3.rng, events |-> s3.events,
              degs |-> Append(st.degs, triad_degs)]

\* The state after the first n passes of the loop over the bars.
RECURSIVE chord_bars(_, _, _, _, _)
chord_bars(p, bar_ticks, scale, tokens, n) ==
    IF n <= 0
    THEN [error |-> "none", rng |-> chord_rng(p), events |-> <<>>, degs |-> <<>>]
    ELSE LET st == chord_bars(p, bar_ticks, scale, tokens, n - 1)
         IN  IF st.error # "none"
             THEN st
             ELSE chord_bar(p, bar_ticks, scale, tokens, n - 1, st)

\* Returns events and chord_degs_per_bar, or raises.
make_chords(p, bar_ticks) ==
    chord_bars(p, bar_ticks, build_scale(p.key, p.mode, p.chord_octave),
               tokens_of(p.progression), p.bars)

(***************************************************************************)
(* make_melody                                                             *)
(***************************************************************************)
rhythm == <<1, 0, 0, 1, 0, 1, 0, 0, 1, 0, 0, 1, 0, 0, 0, 0>>

\* rng = random.Random(params.seed + 123)
melody_rng(p) == Seeded(p.seed + 123)

\* The steps i of the grid with rhythm[i] = 1, in order: the passes of
\* `for i, hit in enumerate(rhythm)` that get past `if not hit: continue`.
hit_steps == SelectSeq(<<0, 1, 2, 3, 4, 5, 6, 7, 8, 9, 10, 11, 12, 13, 14, 15>>,
                       LAMBDA i : rhythm[i + 1] # 0)

\* One such pass, at step i, from the state st = [rng, events] before it.
melody_step(lead_scale, chord_tones, base_tick, i, st) ==
    LET strong == (i % 4 = 0)
        r1 == IF strong THEN st.rng ELSE NextRng(st.rng)
        chordal == strong \/ RandomBelow07(r1)
        r2 == NextRng(r1)
        deg == IF chordal THEN Choice(r2, chord_tones)
                          ELSE Choice(r2, <<0, 1, 2, 3, 4, 5, 6>>)
        note == lead_scale[deg + 1]
        r3 == NextRng(r2)
        shift == RandInt(r3, -20, 20)
        start == base_tick + (i * (PPQN \div 4)) + shift
        r4 == NextRng(r3)
        vel == (IF i = 0 THEN 100 ELSE IF i % 4 = 0 THEN 85 ELSE 70)
                 + RandInt(r4, -10, 10)
        r5 == NextRng(r4)
        duration == (PPQN \div 4) + RandInt(r5, -50, 50)
    IN  [events |-> st.events \o << <<start, <<145, note, vel>> >>,
                                    <<start + duration, <<129, note, 0>> >> >>,
         rng |-> r5]

\* The state after the first n of those passes, in one bar.
RECURSIVE melody_steps(_, _, _, _, _)
melody_steps(lead_scale, chord_tones, base_tick, n, st) ==
    IF n <= 0
    THEN st
    ELSE melody_step(lead_scale, chord_tones, base_tick, hit_steps[n],
                     melody_steps(lead_scale, chord_tones, base_tick, n - 1, st))

\* The state after the first n passes of the loop over the bars: the events of
\* the bars before, then those of bar n - 1, drawn from where they left rng.
RECURSIVE melody_bars(_, _, _, _, _)
melody_bars(p, degs, bar_ticks, lead_scale, n) ==
    IF n <= 0
    THEN [events |-> <<>>, rng |-> melody_rng(p)]
    ELSE LET st == melody_bars(p, degs, bar_ticks, lead_scale, n - 1)
             bar == melody_steps(lead_scale, degs[n], (n - 1) * bar_ticks,
                                 Len(hit_steps), [rng |-> st.rng, events |-> <<>>])
         IN  [events |-> st.events \o bar.events, rng |-> bar.rng]

make_melody(p, degs, bar_ticks) ==
    melody_bars(p, degs, bar_ticks, build_scale(p.key, p.mode, p.melody_octave),
                p.bars).events

(***************************************************************************)
(* make_drums                                                              *)
(***************************************************************************)
\* rng = random.Random(params.seed + 999)
drum_rng(p) == Seeded(p.seed + 999)

\* One pass of `for i in range(16)`, from the state st = [rng, events].
drum_step(bs, i, st) ==
    LET t == bs + i * (PPQN \div 4)
        kick == IF i \in {0, 8}
                THEN << <<t, <<153, 36, 110>> >>, <<t + 100, <<137, 36, 0>> >> >>
                ELSE <<>>
        snare == IF i \in {4, 12}
                 THEN << <<t, <<153, 38, 100>> >>, <<t + 100, <<137, 38, 0>> >> >>
                 ELSE <<>>
        r1 == IF i % 2 = 0 THEN NextRng(st.rng) ELSE st.rng
        vel == IF i % 4 = 0 THEN 90 ELSE 65
        hat == IF i % 2 = 0
               THEN << <<t, <<153, 42, vel + RandInt(r1, -5, 5)>> >>,
                       <<t + 60, <<137, 42, 0>> >> >>
               ELSE <<>>
    IN  [rng |-> r1, events |-> st.events \o kick \o snare \o hat]

\* The state after the first n passes of the loop over the grid, in one bar.
RECURSIVE drum_steps(_, _, _)
drum_steps(bs, n, st) ==
    IF n <= 0 THEN st ELSE drum_step(bs, n - 1, drum_steps(bs, n - 1, st))

\* The state after the first n passes of the loop over the bars: the events of
\* the bars before, then those of bar n - 1, drawn from where they left rng.
RECURSIVE drum_bars(_, _, _)
drum_bars(p, bar_ticks, n) ==
    IF n <= 0
    THEN [events |-> <<>>, rng |-> drum_rng(p)]
    ELSE LET st == drum_bars(p, bar_ticks, n - 1)
             bar == drum_steps((n - 1) * bar_ticks, 16, [rng |-> st.rng, events |-> <<>>])
         IN  [events |-> st.events \o bar.events, rng |-> bar.rng]

make_drums(p, bar_ticks) == drum_bars(p, bar_ticks, p.bars).events

(***************************************************************************)
(* generate_song_bytes                                                     *)
(***************************************************************************)
\* struct.pack(">I", n) and struct.pack(">H", n)
pack_I(n) == <<(n \div 16777216) % 256, (n \div 65536) % 256, (n \div 256) % 256, n % 256>>
pack_H(n) == <<(n \div 256) % 256, n % 256>>

\* tempo = int(60_000_000 / params.bpm); the tempo meta event at tick 0.
t0_events(p) ==
    LET tempo == Trunc(60000000, p.bpm)
    IN  << <<0, <<255, 81, 3, (tempo \div 65536) % 256, (tempo \div 256) % 256,
                  tempo % 256>> >> >>

MThd == <<77, 84, 104, 100>>
MTrk == <<77, 84, 114, 107>>

\* A mutant: the drum track is written before the melody track.
assemble_drums_first(t0, chords, melody, drums) ==
    LET tracks == <<build_track(t0), build_track(chords), build_track(drums),
                    build_track(melody)>>
    IN  MThd \o pack_I(6) \o pack_H(1) \o pack_H(Len(tracks)) \o pack_H(PPQN)
          \o Flatten([k \in 1..Len(tracks) |->
                        MTrk \o pack_I(Len(tracks[k])) \o tracks[k]])

\* tracks, header and chunks of generate_song_bytes.
assemble(t0, chords, melody, drums) ==
    LET tracks == <<build_track(t0), build_track(chords), build_track(melody),
                    build_track(drums)>>
    IN  MThd \o pack_I(6) \o pack_H(1) \o pack_H(Len(tracks)) \o pack_H(PPQN)
          \o Flatten([k \in 1..Len(tracks) |->
                        MTrk \o pack_I(Len(tracks[k])) \o tracks[k]])

(***************************************************************************)
(* The inputs                                                              *)
(***************************************************************************)
\* write_varlen: every value to MaxValue, and the ends of the 3- and 4-byte
\* ranges.
Values == (0..MaxValue) \cup {2097151, 2097152, 268435455}

\* build_track: ticks that give deltas of one, two and three bytes, and a
\* note-on, a note-off and the tempo meta event as messages.
Ticks == {0, 100, 128, MaxTick}
Msgs == {<<144, 60, 100>>, <<128, 60, 0>>, <<255, 81, 3, 7, 98, 30>>}

\* roman_to_degree: every token of up to MaxTokenLen characters.
RomanChars == {"i", "v", "I", "V", "x", " ", ChA, ChDeg}
Tokens == UNION {[1..n -> RomanChars] : n \in 0..MaxTokenLen}

\* SongParams: the defaults of the dataclass.
DefaultProgression == <<"I", "-", "V", "-", "v", "i", "-", "I", "V">>
BarredProgression == <<" ", "v", "i", "i", "|", "i", "i", "i", " ", "-", " ", "-", "x">>

DefaultParams ==
    [bpm |-> 124, bars |-> 8, time_sig_num |-> 4, time_sig_den |-> 4, key |-> "C",
     mode |-> "major", progression |-> DefaultProgression, energy |-> 75,
     swing |-> 10, seed |-> 42, chord_octave |-> 3, melody_octave |-> 5,
     bass_octave |-> 2]

\* Every combination of these values with 0..MaxBars bars, and the defaults
\* themselves (8 bars).
ParamSpace ==
    [bpm : {DefaultParams.bpm},
     bars : 0..MaxBars,
     time_sig_num : {1, DefaultParams.time_sig_num},
     time_sig_den : {DefaultParams.time_sig_den},
     key : {"C", "B"},
     mode : {"major", "Minor"},
     progression : {DefaultProgression, BarredProgression, <<>>},
     energy : {0, DefaultParams.energy, 150},
     swing : {DefaultParams.swing, 150},
     seed : (0..MaxSeed) \cup {DefaultParams.seed},
     chord_octave : {DefaultParams.chord_octave, 9},
     melody_octave : {DefaultParams.melody_octave, 9},
     bass_octave : {DefaultParams.bass_octave}]
      \cup {DefaultParams}

Pending == [kind |-> "pending", error |-> "none", bytes |-> <<>>]
Returned(b) == [kind |-> "returned", error |-> "none", bytes |-> b]
Raised(e) == [kind |-> "raised", error |-> e, bytes |-> <<>>]

(***************************************************************************)
(* The parts of the state a specification does not use stay as they are    *)
(* here.                                                                   *)
(***************************************************************************)
VarlenIdle == value = 0 /\ encoded = <<>> /\ encoded2 = <<>>
TrackIdle == events = <<>> /\ data = <<>> /\ data2 = <<>>
RomanIdle == roman = <<>> /\ degree = -1
SongIdle ==
    /\ params = DefaultParams
    /\ ambient = 0
    /\ call = 1
    /\ order = <<>>
    /\ chord_ev = <<>>
    /\ chord_degs = <<>>
    /\ melody_ev = <<>>
    /\ drum_ev = <<>>
    /\ result = [c \in 1..2 |-> Pending]

(***************************************************************************)
(* write_varlen applied to a value                                         *)
(***************************************************************************)
InitVarlen ==
    /\ value \in Values
    /\ encoded = <<>>
    /\ encoded2 = <<>>
    /\ TrackIdle /\ RomanIdle /\ SongIdle

WriteVarlen ==
    /\ encoded = <<>>
    /\ encoded' = write_varlen(value)
    /\ encoded2' = write_varlen2(value)
    /\ UNCHANGED <<value, trackVars, romanVars, songVars>>

NextVarlen == WriteVarlen

SpecVarlen == InitVarlen /\ [][NextVarlen]_vars

(***************************************************************************)
(* build_track applied to a list of events a caller has put together       *)
(***************************************************************************)
InitTrack ==
    /\ events = <<>>
    /\ data = <<>>
    /\ data2 = <<>>
    /\ VarlenIdle /\ RomanIdle /\ SongIdle

\* events.append((tick, msg)) by the caller
AddEvent ==
    /\ data = <<>>
    /\ Len(events) < MaxEvents
    /\ \E tick \in Ticks, msg \in Msgs : events' = Append(events, <<tick, msg>>)
    /\ UNCHANGED <<data, data2, varlenVars, romanVars, songVars>>

BuildTrack ==
    /\ data = <<>>
    /\ data' = build_track(events)
    /\ data2' = build_track2(events)
    /\ UNCHANGED <<events, varlenVars, romanVars, songVars>>

NextTrack == AddEvent \/ BuildTrack

SpecTrack == InitTrack /\ [][NextTrack]_vars

(***************************************************************************)
(* roman_to_degree applied to a token                                      *)
(***************************************************************************)
InitRoman ==
    /\ roman \in Tokens
    /\ degree = -1
    /\ VarlenIdle /\ TrackIdle /\ SongIdle

RomanToDegree ==
    /\ degree = -1
    /\ degree' = roman_to_degree(roman)
    /\ UNCHANGED <<roman, varlenVars, trackVars, songVars>>

NextRoman == RomanToDegree

SpecRoman == InitRoman /\ [][NextRoman]_vars

(***************************************************************************)
(* generate_song_bytes, called twice with the same SongParams              *)
(*                                                                         *)
(* One action per generator call and one for the tracks, header and        *)
(* chunks.  make_melody takes chord_degs from make_chords and so follows   *)
(* it.  make_drums takes nothing from the other two: the code calls it     *)
(* last, and the model lets it run at any point of the call, the code's    *)
(* order being one of the three.  Between the two calls the module-level   *)
(* generator of `random` may have been drawn from.                         *)
(***************************************************************************)
Init ==
    /\ params \in ParamSpace
    /\ ambient = 0
    /\ call = 1
    /\ order = <<>>
    /\ chord_ev = <<>>
    /\ chord_degs = <<>>
    /\ melody_ev = <<>>
    /\ drum_ev = <<>>
    /\ result = [c \in 1..2 |-> Pending]
    /\ VarlenIdle /\ TrackIdle /\ RomanIdle

done == {order[i] : i \in 1..Len(order)}

bar_ticks_of(p) == p.time_sig_num * PPQN

MakeChords ==
    /\ result[call] = Pending
    /\ "chords" \notin done
    /\ LET r == make_chords(params, bar_ticks_of(params))
       IN  IF r.error = "none"
           THEN /\ chord_ev' = r.events
                /\ chord_degs' = r.degs
                /\ order' = Append(order, "chords")
                /\ UNCHANGED result
           ELSE /\ result' = [result EXCEPT ![call] = Raised(r.error)]
                /\ UNCHANGED <<chord_ev, chord_degs, order>>
    /\ UNCHANGED <<params, ambient, call, melody_ev, drum_ev>>
    /\ UNCHANGED <<varlenVars, trackVars, romanVars>>

MakeMelody ==
    /\ result[call] = Pending
    /\ "chords" \in done
    /\ "melody" \notin done
    /\ melody_ev' = make_melody(params, chord_degs, bar_ticks_of(params))
    /\ order' = Append(order, "melody")
    /\ UNCHANGED <<params, ambient, call, chord_ev, chord_degs, drum_ev, result>>
    /\ UNCHANGED <<varlenVars, trackVars, romanVars>>

MakeDrums ==
    /\ result[call] = Pending
    /\ "drums" \notin done
    /\ drum_ev' = make_drums(params, bar_ticks_of(params))
    /\ order' = Append(order, "drums")
    /\ UNCHANGED <<params, ambient, call, chord_ev, chord_degs, melody_ev, result>>
    /\ UNCHANGED <<varlenVars, trackVars, romanVars>>

Assemble ==
    /\ result[call] = Pending
    /\ done = {"chords", "melody", "drums"}
    /\ LET t0 == t0_events(params)
       IN  result' =
             [result EXCEPT ![call] =
                IF bytes_ok(t0) /\ bytes_ok(chord_ev) /\ bytes_ok(melody_ev)
                     /\ bytes_ok(drum_ev)
                THEN Returned(assemble(t0, chord_ev, melody_ev, drum_ev))
                ELSE Raised("ValueError")]
    /\ UNCHANGED <<params, ambient, call, order, chord_ev, chord_degs, melody_ev,
                   drum_ev>>
    /\ UNCHANGED <<varlenVars, trackVars, romanVars>>

\* The caller calls generate_song_bytes again with the same SongParams.
NextCall ==
    /\ call = 1
    /\ result[call] # Pending
    /\ call' = 2
    /\ ambient' \in {ambient, NextRng(ambient)}
    /\ order' = <<>>
    /\ chord_ev' = <<>>
    /\ chord_degs' = <<>>
    /\ melody_ev' = <<>>
    /\ drum_ev' = <<>>
    /\ UNCHANGED <<params, result>>
    /\ UNCHANGED <<varlenVars, trackVars, romanVars>>

Next == MakeChords \/ MakeMelody \/ MakeDrums \/ Assemble \/ NextCall

Spec == Init /\ [][Next]_vars

(***************************************************************************)
(* Reading bytes back: a decoder of variable-length quantities, of a       *)
(* track's event stream and of a file's chunks, written from the format    *)
(* and not from the encoder.                                               *)
(***************************************************************************)
RECURSIVE decode_varlen(_)
decode_varlen(bytes) ==
    IF bytes = <<>>
    THEN 0
    ELSE decode_varlen(SubSeq(bytes, 1, Len(bytes) - 1)) * 128 + (bytes[Len(bytes)] % 128)

\* The number of 7-bit groups v needs.
Groups(v) ==
    IF v < 128 THEN 1
    ELSE IF v < 128 * 128 THEN 2
    ELSE IF v < 128 * 128 * 128 THEN 3
    ELSE 4

WellFormedVarlen(bytes, v) ==
    /\ Len(bytes) = Groups(v)
    /\ \A i \in 1..(Len(bytes) - 1) : bytes[i] \in 128..255
    /\ bytes[Len(bytes)] \in 0..127
    /\ decode_varlen(bytes) = v

EndOfTrack == <<255, 47, 0>>
Malformed == [delta |-> -1, msg |-> <<>>]

\* The index of the last byte of the quantity that starts at pos (0: none).
DeltaEnd(b, pos) ==
    IF \E q \in pos..Len(b) : b[q] < 128
    THEN CHOOSE q \in pos..Len(b) :
            b[q] < 128 /\ \A r \in pos..(q - 1) : b[r] >= 128
    ELSE 0

\* The events of a track from byte pos on: a delta, then a meta event (FF,
\* type, length, payload) or a three-byte channel message.
RECURSIVE parse_track(_, _)
parse_track(b, pos) ==
    IF pos > Len(b)
    THEN <<>>
    ELSE LET q == DeltaEnd(b, pos)
         IN  IF q = 0 \/ q + 3 > Len(b)
             THEN <<Malformed>>
             ELSE LET mlen == IF b[q + 1] = 255 THEN 3 + b[q + 3] ELSE 3
                  IN  IF q + mlen > Len(b)
                      THEN <<Malformed>>
                      ELSE <<[delta |-> decode_varlen(SubSeq(b, pos, q)),
                              msg |-> SubSeq(b, q + 1, q + mlen)]>>
                             \o parse_track(b, q + mlen + 1)

RECURSIVE SumDeltas(_, _)
SumDeltas(parsed, k) == IF k = 0 THEN 0 ELSE SumDeltas(parsed, k - 1) + parsed[k].delta

\* The place of events[i] once the list is in ascending order of tick with
\* equal ticks in insertion order.
StablePos(evs, i) ==
    Cardinality({j \in 1..Len(evs) : Tick(evs[j]) < Tick(evs[i])})
      + Cardinality({j \in 1..i : Tick(evs[j]) = Tick(evs[i])})

\* The bodies of the chunks of a file from byte pos on.
RECURSIVE parse_chunks(_, _)
parse_chunks(b, pos) ==
    IF pos + 7 > Len(b)
    THEN <<>>
    ELSE LET n == ((b[pos + 4] * 256 + b[pos + 5]) * 256 + b[pos + 6]) * 256 + b[pos + 7]
         IN  IF SubSeq(b, pos, pos + 3) # MTrk \/ pos + 7 + n > Len(b)
             THEN <<>>
             ELSE <<SubSeq(b, pos + 8, pos + 7 + n)>> \o parse_chunks(b, pos + 8 + n)

(***************************************************************************)
(* What the claims call a valid Configuration, and the numerals.           *)
(***************************************************************************)
ValidConfiguration(p) ==
    /\ p.bars >= 1
    /\ p.time_sig_num >= 1
    /\ p.progression # <<>>
    /\ p.energy \in 0..100
    /\ p.swing \in 0..100
    /\ p.key \in DOMAIN NOTE_TO_SEMI
    /\ p.mode \in {"major", "minor"}

\* The configurations the error-handling section says are rejected.
RejectedConfiguration(p) ==
    \/ p.bars <= 0
    \/ p.progression = <<>>
    \/ p.energy \notin 0..100
    \/ p.swing \notin 0..100

LowerNumerals ==
    << <<"i">>, <<"i", "i">>, <<"i", "i", "i">>, <<"i", "v">>, <<"v">>, <<"v", "i">>,
       <<"v", "i", "i">> >>

ToLower(t) ==
    [i \in 1..Len(t) |-> IF t[i] = "I" THEN "i" ELSE IF t[i] = "V" THEN "v" ELSE t[i]]
ToUpper(t) ==
    [i \in 1..Len(t) |-> IF t[i] = "i" THEN "I" ELSE IF t[i] = "v" THEN "V" ELSE t[i]]

IsNumeral(t) == \E k \in 0..6 : LowerNumerals[k + 1] = t
NumeralIndex(t) == CHOOSE k \in 0..6 : LowerNumerals[k + 1] = t

LettersOnly(t) == \A i \in 1..Len(t) : t[i] \in {"i", "v", "I", "V", "x"}

\* t is num with blanks before and after it.
Padded(t, num) ==
    \E a \in 0..Len(t) :
        /\ a + Len(num) <= Len(t)
        /\ SubSeq(t, a + 1, a + Len(num)) = num
        /\ \A j \in (1..a) \cup ((a + Len(num) + 1)..Len(t)) : t[j] = " "

\* The tokens of the progressions of ParamSpace, read off by hand.
TokensByHand(progression) ==
    CASE progression = DefaultProgression ->
           << <<"I">>, <<"V">>, <<"v", "i">>, <<"I", "V">> >>
      [] progression = BarredProgression ->
           << <<"v", "i", "i">>, <<"i", "i", "i">>, <<"x">> >>
      [] OTHER -> <<>>

DegreeByHand(t) == IF IsNumeral(ToLower(t)) THEN NumeralIndex(ToLower(t)) ELSE 0

DeltasOf(evs) ==
    LET s == sorted(evs)
    IN  [i \in 1..Len(s) |-> Tick(s[i]) - (IF i = 1 THEN 0 ELSE Tick(s[i - 1]))]

GeneratedTracks == {t0_events(params), chord_ev, melody_ev, drum_ev}

(***************************************************************************)
(* C1.  For every valid Configuration and each generated track (meta,      *)
(* chords, melody, drums), every delta tick - lastTick that build_track    *)
(* computes over the tick-sorted events, lastTick starting at 0, is >= 0,  *)
(* and no generator emits an event at a negative tick.                     *)
(***************************************************************************)
NonNegativeDeltas ==
    ValidConfiguration(params) =>
        \A evs \in GeneratedTracks :
            /\ \A i \in 1..Len(evs) : Tick(evs[i]) >= 0
            /\ \A i \in 1..Len(evs) : DeltasOf(evs)[i] >= 0

Reconstructs(d) ==
    LET parsed == parse_track(d, 1)
    IN  /\ Len(parsed) = Len(events) + 1
        /\ \A i \in 1..Len(events) :
              LET k == StablePos(events, i)
              IN  /\ parsed[k].msg = Msg(events[i])
                  /\ SumDeltas(parsed, k) = Tick(events[i])

(***************************************************************************)
(* C2.  For a list of events with non-negative ticks, in any insertion     *)
(* order and with ties, the track build_track writes holds one delta per   *)
(* event (and one for the end-of-track event), and the running sum of the  *)
(* decoded deltas at the place of an event in the stable order is that     *)
(* event's tick, its message standing there.                               *)
(***************************************************************************)
DeltaReconstruction == data # <<>> => Reconstructs(data) /\ Reconstructs(data2)

DeltaReconstructionWitness ==
    /\ data # <<>>
    /\ \E i, j \in 1..Len(events) :
          i < j /\ Tick(events[i]) = Tick(events[j]) /\ Msg(events[i]) # Msg(events[j])
    /\ \E i, j \in 1..Len(events) : i < j /\ Tick(events[i]) > Tick(events[j])

(***************************************************************************)
(* C3.  For every v >= 0, write_varlen(v) decodes back to v, has exactly   *)
(* as many bytes as v has 7-bit groups, every byte but the last with the   *)
(* high bit set and the last with it clear; write_varlen(0) is [0x00].     *)
(***************************************************************************)
VarlenRoundTrip ==
    encoded # <<>> =>
        /\ WellFormedVarlen(encoded, value)
        /\ WellFormedVarlen(encoded2, value)
        /\ (value = 0 => encoded = <<0>> /\ encoded2 = <<0>>)

VarlenRoundTripWitness == encoded # <<>> /\ Len(encoded) = 3 /\ encoded[2] > 128

(***************************************************************************)
(* C4.  As stated: write_varlen(300) returns the bytes A2 2C.              *)
(***************************************************************************)
Varlen300AsStated == (value = 300 /\ encoded # <<>>) => encoded = <<162, 44>>

(***************************************************************************)
(* C4, amended.  write_varlen(300) returns the bytes 82 2C.                *)
(***************************************************************************)
Varlen300 == (value = 300 /\ encoded # <<>>) => encoded = <<130, 44>>

Varlen300Witness == value = 300 /\ encoded # <<>>

(***************************************************************************)
(* C5.  For every valid Configuration, every note-on and note-off event of *)
(* make_chords, make_melody and make_drums has its pitch byte and its      *)
(* velocity byte in 0..127.                                                *)
(***************************************************************************)
NoteBytesInRange ==
    ValidConfiguration(params) =>
        \A evs \in {chord_ev, melody_ev, drum_ev} :
            \A i \in 1..Len(evs) :
                Msg(evs[i])[2] \in 0..127 /\ Msg(evs[i])[3] \in 0..127

FixedLayout ==
    result[call].kind = "returned" =>
        LET b == result[call].bytes
        IN  /\ SubSeq(b, 1, 14) = <<77, 84, 104, 100, 0, 0, 0, 6, 0, 1, 0, 4, 1, 224>>
            /\ parse_chunks(b, 15) = <<build_track(t0_events(params)),
                                       build_track(chord_ev),
                                       build_track(melody_ev),
                                       build_track(drum_ev)>>

(***************************************************************************)
(* C6.  Two calls of generate_song_bytes with the same SongParams end the  *)
(* same way, with the same bytes, whatever the point at which make_drums   *)
(* ran and whatever was drawn from the module-level generator in between;  *)
(* and a returned file is the header and then four chunks holding the meta *)
(* track, the chord track, the melody track and the drum track, in that    *)
(* order.                                                                  *)
(***************************************************************************)
Determinism ==
    /\ (result[1] # Pending /\ result[2] # Pending) => result[1] = result[2]
    /\ FixedLayout

DeterminismWitness ==
    /\ call = 2
    /\ result[2].kind = "returned"
    /\ result[1].bytes = result[2].bytes
    /\ order = <<"drums", "chords", "melody">>
    /\ ambient # 0
    /\ melody_ev # <<>>

(***************************************************************************)
(* C7.  A Configuration with a non-positive bar count, an empty            *)
(* progression or an energy or looseness outside 0..1 never gets a buffer  *)
(* back: the call fails, and with InvalidConfiguration.                    *)
(***************************************************************************)
InvalidConfigurationRejected ==
    \A c \in 1..2 :
        (RejectedConfiguration(params) /\ result[c] # Pending) =>
            result[c] = Raised("InvalidConfiguration")

Terminated(d) ==
    LET parsed == parse_track(d, 1)
        n == Len(parsed)
    IN  /\ Len(d) >= 4
        /\ SubSeq(d, Len(d) - 3, Len(d)) = <<0, 255, 47, 0>>
        /\ n >= 1
        /\ parsed[n] = [delta |-> 0, msg |-> EndOfTrack]
        /\ \A k \in 1..(n - 1) : parsed[k].msg # EndOfTrack /\ parsed[k] # Malformed

(***************************************************************************)
(* C8.  Whatever the event list, the empty one included, the track ends    *)
(* with the bytes 00 FF 2F 00, and the end-of-track event is in its event  *)
(* stream once, as the last event.                                         *)
(***************************************************************************)
TrackTermination == data # <<>> => Terminated(data) /\ Terminated(data2)

TrackTerminationWitness ==
    /\ data # <<>>
    /\ \E i \in 1..Len(events) : Msg(events[i])[1] = 255
    /\ \E i \in 1..Len(events) : Msg(events[i])[1] # 255

\* The empty list is among the lists C8 is checked on.
TrackTerminationEmptyWitness == data # <<>> /\ events = <<>>

(***************************************************************************)
(* C9.  Once make_chords has returned there is one context record per bar; *)
(* the record of bar b is [root, (root + 2) mod 7, (root + 4) mod 7] for   *)
(* the degree root of token b mod len(tokens), every index in 0..6; and    *)
(* with "I-V-vi-IV" over 8 bars, bar 4 is "I" again, with degrees 0, 2, 4. *)
(***************************************************************************)
ChordCycle ==
    "chords" \in done =>
        LET tokens == TokensByHand(params.progression)
        IN  /\ Len(chord_degs) = params.bars
            /\ \A b \in 0..(params.bars - 1) :
                  LET root == DegreeByHand(tokens[(b % Len(tokens)) + 1])
                  IN  /\ chord_degs[b + 1] = <<root, (root + 2) % 7, (root + 4) % 7>>
                      /\ \A k \in 1..3 : chord_degs[b + 1][k] \in 0..6
            /\ (params.progression = DefaultProgression /\ params.bars = 8 =>
                  chord_degs[5] = <<0, 2, 4>>)

ChordCycleWitness ==
    /\ "chords" \in done
    /\ params.progression = DefaultProgression
    /\ params.bars = 8
    /\ chord_degs[5] = <<0, 2, 4>>
    /\ chord_degs[2] = <<4, 6, 1>>

(***************************************************************************)
(* C10.  As stated: a numeral I..VII in any mix of upper and lower case    *)
(* maps to its zero-based index, and any other token maps to 0.  (Stated   *)
(* here for the tokens made of letters only.)                              *)
(***************************************************************************)
CaseInsensitiveDegree ==
    (degree # -1 /\ LettersOnly(roman)) =>
        degree = (IF IsNumeral(ToLower(roman)) THEN NumeralIndex(ToLower(roman)) ELSE 0)

(***************************************************************************)
(* C10, amended.  A numeral I..VII written all in upper case or all in     *)
(* lower case, blanks around it and the deleted two-character mark after   *)
(* it aside, maps to its zero-based index; any other token made of letters *)
(* only, a mixed-case spelling included, maps to 0; every result is in     *)
(* 0..6.                                                                   *)
(***************************************************************************)
UniformCaseDegree ==
    degree # -1 =>
        /\ degree \in 0..6
        /\ \A k \in 0..6 :
              LET lo == LowerNumerals[k + 1]
                  up == ToUpper(lo)
              IN  (\/ Padded(roman, lo) \/ Padded(roman, up)
                   \/ roman = lo \o <<ChA, ChDeg>> \/ roman = up \o <<ChA, ChDeg>>)
                    => degree = k
        /\ (LettersOnly(roman)
              /\ ~(\E k \in 0..6 : roman \in {LowerNumerals[k + 1],
                                              ToUpper(LowerNumerals[k + 1])})
              => degree = 0)

UniformCaseDegreeWitness == roman = <<"V", "I">> /\ degree = 5

====
